---- MODULE Spec2Model ----
(***************************************************************************)
(* Model of the WhatsApp AI funnel: the admission queue of queueService    *)
(* (window counter, FIFO buffer, drain loop), the per-message pipeline     *)
(* processMessageDirectly, the Supabase tables it reads and writes through *)
(* databaseService, and handleMessage of messageController, which hands    *)
(* each message to the queue and catches what the queue throws.            *)
(*                                                                         *)
(* Every await of the JavaScript code is a point where other callbacks may *)
(* run, so every awaited collaborator call is an action of its own; the    *)
(* synchronous code between two awaits is part of the action that ends the *)
(* earlier await.                                                          *)
(***************************************************************************)
EXTENDS Integers, Sequences, FiniteSets, TLC

\* ---------------------------------------------------------------- bounds
\* Number of inbound events the model submits.
MaxEvents == 3

\* botConfig.whatsapp.rateLimit.threshold.  The configuration sets 50; the
\* model scales it down so that MaxEvents submits can exceed it.
RATE_LIMIT_THRESHOLD == 1

\* An inbound event arrives only while fewer than MaxInFlight executions of
\* processMessageDirectly are in progress.
MaxInFlight == 2

\* ------------------------------------------------------ program constants
\* The literal of the limit check of processMessageDirectly.
FREE_MESSAGE_LIMIT == 10

Events == 1..MaxEvents

\* Senders: "a" has a row in the users table at start, "b" has none.
Senders == {"a", "b"}

\* A sender whose number starts with one of the country codes of
\* botConfig.access.blockedCountries.codes.
BlockedSenders == {"c"}

AllSenders == Senders \cup BlockedSenders

\* message_count values the stored row of "a" starts with: one below the
\* free limit, so that the runs of "a" reach the limit and then exceed it.
InitCounts == {9}

VARIABLES
    requestCount,       \* queueService: let requestCount
    delayedMessages,    \* queueService: const delayedMessages = [] (event ids)
    processingDelayed,  \* queueService: let processingDelayed
    drains,             \* executions of processDelayedMessages in progress
    users,              \* table users: user_id -> row
    messages,           \* table messages: rows in insertion order
    submitted,          \* number of events handed to handleMessage so far
    from,               \* messageData.from of each submitted event
    run,                \* per event: the execution of processMessageDirectly
    controller,         \* per event: the execution of handleMessage of
                        \* messageController
    deferred,           \* history: events that were pushed to delayedMessages
    drainSince,         \* history: buffered events after whose push a window
                        \* tick has started a drain
    window,             \* history: what handleMessage did with each request
                        \* of the current window, in order of arrival
    inserted,           \* history: per sender, the number of rows that
                        \* findOrCreateUser inserted into users
    payload,            \* per event: what the webhook payload carried
    response,           \* per event: the status router.post has sent
    oracle,             \* one execution of checkStripeSubscription
    prompting           \* one message from ingestion to its prompt

\* The webhook route in front of the controller.
front == <<payload, response>>

\* The executions that are followed on their own.
single == <<oracle, prompting>>

vars == <<requestCount, delayedMessages, processingDelayed, drains, users,
          messages, submitted, from, run, controller, deferred, drainSince,
          window, inserted, front, single>>

\* ------------------------------------------------------------ data model
\* CREATE TABLE users: the columns the code reads and writes.
UserRow(count, sub) == [message_count |-> count, is_subscribed |-> sub]

\* CREATE TABLE messages: the columns saveMessage writes.  The content of a
\* row is identified by the event it belongs to.
MessageRow(u, role, e) == [user_id |-> u, role |-> role, content |-> e]

\* The state of one execution of processMessageDirectly.
\*   pc            where the execution is suspended
\*   user          what findOrCreateUser returned: <<row>>, or <<>> for null
\*   isSubscribed  what checkSubscription returned
\*   readCount     user.message_count read inside incrementMessageCount
\*   messageCount  what incrementMessageCount returned
\*   send, save    the two promises of the final Promise.all
\*   failedAt      the call whose error the execution threw
\*   status        the status of the result the execution returned
\*   calls         the collaborator calls made so far
\*   delivered     the texts that whatsapp.sendText delivered
\*   turns         number of rows saveMessage inserted
\*   starts        number of calls of processMessageDirectly for the event
NewRun ==
    [pc |-> "idle", user |-> <<>>, isSubscribed |-> FALSE, readCount |-> 0,
     messageCount |-> 0, send |-> "none", save |-> "none",
     failedAt |-> "none", status |-> "none", calls |-> {}, delivered |-> {},
     turns |-> 0, starts |-> 0]

\* The state of one execution of handleMessage of messageController.
\*   pc        "awaiting": suspended at await queueHandler(...)
\*   error     the error the execution threw
\*   sendText  the texts the controller itself passed to whatsapp.sendText
NewController == [pc |-> "idle", error |-> "none", sendText |-> {}]

Finished(e) == run[e].pc \in {"returned", "threw"}

\* The value of oracle and prompting while no execution is followed.
NoCall == [pc |-> "none"]

\* ------------------------------------------------------------------ Init
\* The state of a running deployment at the start of an observation: the
\* current window has admitted up to RATE_LIMIT_THRESHOLD earlier requests,
\* all of them answered (0: the state right after the module is loaded); the
\* users table holds the row of "a"; nothing is buffered or in progress.
Init ==
    /\ requestCount \in 0..RATE_LIMIT_THRESHOLD
    /\ delayedMessages = <<>>
    /\ processingDelayed = FALSE
    /\ drains = {}
    /\ \E c \in InitCounts : users = ("a" :> UserRow(c, FALSE))
    /\ messages = <<>>
    /\ submitted = 0
    /\ from = [e \in Events |-> "none"]
    /\ run = [e \in Events |-> NewRun]
    /\ controller = [e \in Events |-> NewController]
    /\ deferred = {}
    /\ drainSince = {}
    /\ window = [i \in 1..requestCount |-> "inline"]
    /\ inserted = [u \in AllSenders |-> 0]
    /\ payload = [e \in Events |-> "none"]
    /\ response = [e \in Events |-> 0]
    /\ oracle = NoCall
    /\ prompting = NoCall

\* --------------------------------------------- processMessageDirectly
\* The synchronous start of processMessageDirectly: both calls of the first
\* Promise.all are issued before the function suspends.
StartRun(r) ==
    [r EXCEPT !.pc = "findUser",
              !.calls = {"checkSubscription", "findOrCreateUser"},
              !.starts = @ + 1]

\* catch (error) { logger.error(...); throw error; }
ThrowRun(r, at) == [r EXCEPT !.pc = "threw", !.failedAt = at]

\* The catch block of handleMessage of messageController.  It logs the error
\* and evaluates if (from): from is declared by const inside the try block,
\* so it is not in scope in the catch block and no outer from exists: the
\* test throws a ReferenceError before whatsapp.sendText(from,
\* botConfig.errors.general) is reached, and handleMessage rejects with it.
ControllerCatch(c) == [c EXCEPT !.pc = "threw", !.error = "ReferenceError"]

\* handleMessage of messageController suspended at await queueHandler(...),
\* when the execution of processMessageDirectly it waits for has become r:
\* a result is logged and returned; an error, rethrown by handleMessage of
\* queueService, enters the catch block.
ControllerResume(c, r) ==
    IF c.pc # "awaiting" THEN c
    ELSE IF r.pc = "returned" THEN [c EXCEPT !.pc = "returned"]
    ELSE IF r.pc = "threw" THEN ControllerCatch(c)
    ELSE c

\* run with the execution of event e replaced by r, and the controller that
\* awaits it resumed.
SetRun(e, r) ==
    /\ run' = [run EXCEPT ![e] = r]
    /\ controller' = [controller EXCEPT ![e] = ControllerResume(@, r)]

\* if (messageCount <= 10 || isSubscribed): the branch that sends
\* botConfig.subscription.messages.expired and returns subscription_required.
SubscriptionRequired(messageCount, isSubscribed) ==
    messageCount <= FREE_MESSAGE_LIMIT \/ isSubscribed

\* findOrCreateUser that logs a fetch error and returns a default record
\* instead of throwing.
FindUserSelect_ErrorIgnored(e) ==
    /\ run[e].pc = "findUser"
    /\ \E ok \in BOOLEAN :
         IF ~ok THEN SetRun(e, [run[e] EXCEPT !.pc = "join",
                                 !.failedAt = "findOrCreateUser",
                                 !.user = <<UserRow(0, FALSE)>>])
         ELSE IF from[e] \in DOMAIN users
              THEN SetRun(e, [run[e] EXCEPT !.pc = "join",
                                           !.user = <<users[from[e]]>>])
              ELSE SetRun(e, [run[e] EXCEPT !.pc = "insertUser"])
    /\ UNCHANGED <<requestCount, delayedMessages, processingDelayed, drains,
                   users, messages, submitted, from, deferred, drainSince,
                   window,
                   inserted, front, single>>

\* findOrCreateUser called by processMessageDirectly: the select.  A fetch
\* error is thrown; an existing row is returned; a missing row leads to the
\* insert.
FindUserSelect(e) ==
    /\ run[e].pc = "findUser"
    /\ \E ok \in BOOLEAN :
         IF ~ok THEN SetRun(e, ThrowRun(run[e], "findOrCreateUser"))
         ELSE IF from[e] \in DOMAIN users
              THEN SetRun(e, [run[e] EXCEPT !.pc = "join",
                                           !.user = <<users[from[e]]>>])
              ELSE SetRun(e, [run[e] EXCEPT !.pc = "insertUser"])
    /\ UNCHANGED <<requestCount, delayedMessages, processingDelayed, drains,
                   users, messages, submitted, from, deferred, drainSince, window,
                   inserted, front, single>>

\* findOrCreateUser whose insert is not stopped by a UNIQUE constraint on
\* user_id: a second row for the sender is inserted.
FindUserInsert_NoUniqueConstraint(e) ==
    /\ run[e].pc = "insertUser"
    /\ \E ok \in BOOLEAN :
         IF ~ok
         THEN /\ SetRun(e, ThrowRun(run[e], "findOrCreateUser"))
              /\ UNCHANGED <<users, inserted>>
         ELSE /\ users' = users @@ (from[e] :> UserRow(0, FALSE))
              /\ inserted' = [inserted EXCEPT ![from[e]] = @ + 1]
              /\ \E newUser \in {<<>>, <<UserRow(0, FALSE)>>} :
                   SetRun(e, [run[e] EXCEPT !.pc = "join", !.user = newUser])
    /\ UNCHANGED <<requestCount, delayedMessages, processingDelayed, drains,
                   messages, submitted, from, deferred, drainSince, window,
                   front, single>>

\* findOrCreateUser: the insert of { message_count: 0, is_subscribed: false }.
\* user_id is UNIQUE, so the insert fails when the row exists by now.  The
\* insert is not followed by a select: whether data is the inserted row or
\* null depends on the supabase-js version, so both are possible.
FindUserInsert(e) ==
    /\ run[e].pc = "insertUser"
    /\ \E ok \in BOOLEAN :
         IF ~ok \/ from[e] \in DOMAIN users
         THEN /\ SetRun(e, ThrowRun(run[e], "findOrCreateUser"))
              /\ UNCHANGED <<users, inserted>>
         ELSE /\ users' = users @@ (from[e] :> UserRow(0, FALSE))
              /\ inserted' = [inserted EXCEPT ![from[e]] = @ + 1]
              /\ \E newUser \in {<<>>, <<UserRow(0, FALSE)>>} :
                   SetRun(e, [run[e] EXCEPT !.pc = "join", !.user = newUser])
    /\ UNCHANGED <<requestCount, delayedMessages, processingDelayed, drains,
                   messages, submitted, from, deferred, drainSince, window,
                   front, single>>

\* The first Promise.all resolves: checkSubscription has answered (it never
\* throws, and its answer is whatever the billing provider says at that
\* moment) and findOrCreateUser has returned.  Then
\*   if (isSubscribed !== user.is_subscribed) await updateSubscription(...)
\*   const messageCount = await incrementMessageCount(from)
\* Reading is_subscribed of a null user throws a TypeError.  user is not
\* read again after this point.
Step1Join(e) ==
    /\ run[e].pc = "join"
    /\ \E isSubscribed \in BOOLEAN :
         LET r == [run[e] EXCEPT !.isSubscribed = isSubscribed, !.user = <<>>]
         IN  IF run[e].user = <<>>
             THEN SetRun(e, ThrowRun(r, "TypeError"))
             ELSE IF isSubscribed # run[e].user[1].is_subscribed
                  THEN SetRun(e, [r EXCEPT !.pc = "updateSub",
                                 !.calls = @ \cup {"updateSubscription"}])
                  ELSE SetRun(e, [r EXCEPT !.pc = "incSelect",
                                 !.calls = @ \cup {"incrementMessageCount"}])
    /\ UNCHANGED <<requestCount, delayedMessages, processingDelayed, drains,
                   users, messages, submitted, from, deferred, drainSince, window,
                   inserted, front, single>>

\* updateSubscription: update({ is_subscribed }).eq('user_id', userId); an
\* error is thrown, and processMessageDirectly rethrows it.
UpdateSubscription(e) ==
    /\ run[e].pc = "updateSub"
    /\ \E ok \in BOOLEAN :
         IF ok
         THEN /\ users' = [users EXCEPT ![from[e]].is_subscribed =
                                           run[e].isSubscribed]
              /\ SetRun(e, [run[e] EXCEPT !.pc = "incSelect",
                              !.calls = @ \cup {"incrementMessageCount"}])
         ELSE /\ SetRun(e, ThrowRun(run[e], "updateSubscription"))
              /\ UNCHANGED users
    /\ UNCHANGED <<requestCount, delayedMessages, processingDelayed, drains,
                   messages, submitted, from, deferred, drainSince, window,
                   inserted, front, single>>

\* incrementMessageCount: const user = await findOrCreateUser(userId).  The
\* row exists: step 1 has found or inserted it and nothing deletes rows, so
\* the insert branch of findOrCreateUser is not taken here.
IncrementSelect(e) ==
    /\ run[e].pc = "incSelect"
    /\ from[e] \in DOMAIN users
    /\ \E ok \in BOOLEAN :
         IF ok
         THEN SetRun(e, [run[e] EXCEPT !.pc = "incUpdate",
                           !.readCount = users[from[e]].message_count])
         ELSE SetRun(e, ThrowRun(run[e], "incrementMessageCount"))
    /\ UNCHANGED <<requestCount, delayedMessages, processingDelayed, drains,
                   users, messages, submitted, from, deferred, drainSince, window,
                   inserted, front, single>>

\* incrementMessageCount followed by a limit check that reads is_subscribed
\* of the users row instead of the answer of checkSubscription.
IncrementUpdate_StoredFlag(e) ==
    /\ run[e].pc = "incUpdate"
    /\ \E ok \in BOOLEAN :
         IF ok
         THEN LET newCount == run[e].readCount + 1
                  r == [run[e] EXCEPT !.messageCount = newCount]
              IN  /\ users' = [users EXCEPT ![from[e]].message_count = newCount]
                  /\ IF SubscriptionRequired(newCount,
                                             users[from[e]].is_subscribed)
                     THEN SetRun(e, [r EXCEPT !.pc = "sendUpsell",
                                    !.calls = @ \cup {"sendSubscriptionMessage"}])
                     ELSE SetRun(e, [r EXCEPT !.pc = "getContext",
                                    !.calls = @ \cup {"getConversationContext"}])
         ELSE /\ SetRun(e, ThrowRun(run[e], "incrementMessageCount"))
              /\ UNCHANGED users
    /\ UNCHANGED <<requestCount, delayedMessages, processingDelayed, drains,
                   messages, submitted, from, deferred, drainSince, window,
                   inserted, front, single>>

\* incrementMessageCount: newCount = user.message_count + 1;
\* update({ message_count: newCount }); return newCount.  Then the limit
\* check of processMessageDirectly, and the call of the branch it takes.
IncrementUpdate(e) ==
    /\ run[e].pc = "incUpdate"
    /\ \E ok \in BOOLEAN :
         IF ok
         THEN LET newCount == run[e].readCount + 1
                  r == [run[e] EXCEPT !.messageCount = newCount]
              IN  /\ users' = [users EXCEPT ![from[e]].message_count = newCount]
                  /\ IF SubscriptionRequired(newCount, run[e].isSubscribed)
                     THEN SetRun(e, [r EXCEPT !.pc = "sendUpsell",
                                    !.calls = @ \cup {"sendSubscriptionMessage"}])
                     ELSE SetRun(e, [r EXCEPT !.pc = "getContext",
                                    !.calls = @ \cup {"getConversationContext"}])
         ELSE /\ SetRun(e, ThrowRun(run[e], "incrementMessageCount"))
              /\ UNCHANGED users
    /\ UNCHANGED <<requestCount, delayedMessages, processingDelayed, drains,
                   messages, submitted, from, deferred, drainSince, window,
                   inserted, front, single>>

\* The subscription_required branch without its return: after the
\* subscription message the run goes on to the context and the reply.
SendSubscriptionMessage_FallsThrough(e) ==
    /\ run[e].pc = "sendUpsell"
    /\ \E ok \in BOOLEAN :
         IF ok
         THEN SetRun(e, [run[e] EXCEPT !.pc = "getContext",
                           !.calls = @ \cup {"getConversationContext"},
                           !.delivered = @ \cup {"subscriptionMessage"}])
         ELSE SetRun(e, ThrowRun(run[e], "sendWhatsAppMessage"))
    /\ UNCHANGED <<requestCount, delayedMessages, processingDelayed, drains,
                   users, messages, submitted, from, deferred, drainSince,
                   window,
                   inserted, front, single>>

\* await sendWhatsAppMessage(from, subscriptionMessage);
\* return { status: 'subscription_required', ... }
SendSubscriptionMessage(e) ==
    /\ run[e].pc = "sendUpsell"
    /\ \E ok \in BOOLEAN :
         IF ok
         THEN SetRun(e, [run[e] EXCEPT !.pc = "returned",
                           !.status = "subscription_required",
                           !.delivered = @ \cup {"subscriptionMessage"}])
         ELSE SetRun(e, ThrowRun(run[e], "sendWhatsAppMessage"))
    /\ UNCHANGED <<requestCount, delayedMessages, processingDelayed, drains,
                   users, messages, submitted, from, deferred, drainSince, window,
                   inserted, front, single>>

\* getConversationContext, then the prompt is built and generateAIResponse
\* is called.
GetConversationContext(e) ==
    /\ run[e].pc = "getContext"
    /\ \E ok \in BOOLEAN :
         IF ok
         THEN SetRun(e, [run[e] EXCEPT !.pc = "generate",
                           !.calls = @ \cup {"generateAIResponse"}])
         ELSE SetRun(e, ThrowRun(run[e], "getConversationContext"))
    /\ UNCHANGED <<requestCount, delayedMessages, processingDelayed, drains,
                   users, messages, submitted, from, deferred, drainSince, window,
                   inserted, front, single>>

\* generateAIResponse whose error is caught and ignored: the reply is sent
\* and saved all the same.
GenerateAIResponse_ErrorIgnored(e) ==
    /\ run[e].pc = "generate"
    /\ \E ok \in BOOLEAN :
         SetRun(e, [run[e] EXCEPT !.pc = "deliver",
                      !.send = "pending", !.save = "pending",
                      !.failedAt = IF ok THEN "none" ELSE "generateAIResponse",
                      !.calls = @ \cup {"sendWhatsAppMessage", "saveMessage"}])
    /\ UNCHANGED <<requestCount, delayedMessages, processingDelayed, drains,
                   users, messages, submitted, from, deferred, drainSince, window,
                   inserted, front, single>>

\* const aiResponse = await generateAIResponse(prompt); then both calls of
\* the second Promise.all are issued.  An error of generateAIResponse is
\* thrown before either is.
GenerateAIResponse(e) ==
    /\ run[e].pc = "generate"
    /\ \E ok \in BOOLEAN :
         IF ok
         THEN SetRun(e, [run[e] EXCEPT !.pc = "deliver",
                           !.send = "pending", !.save = "pending",
                           !.calls = @ \cup {"sendWhatsAppMessage",
                                             "saveMessage"}])
         ELSE SetRun(e, ThrowRun(run[e], "generateAIResponse"))
    /\ UNCHANGED <<requestCount, delayedMessages, processingDelayed, drains,
                   users, messages, submitted, from, deferred, drainSince, window,
                   inserted, front, single>>

\* A Promise.all that cancels the promise still pending when the other one
\* is rejected.
SettleAll_AbortOther(r, at) ==
    IF r.pc # "deliver" THEN r
    ELSE IF "failed" \in {r.send, r.save}
         THEN [ThrowRun(r, at) EXCEPT
                  !.send = IF @ = "pending" THEN "none" ELSE @,
                  !.save = IF @ = "pending" THEN "none" ELSE @]
    ELSE IF r.send = "done" /\ r.save = "done"
         THEN [r EXCEPT !.pc = "returned", !.status = "success"]
         ELSE r

\* Promise.all([send, save]) as seen by processMessageDirectly once one of
\* the two promises has settled as r says: it rejects on the first
\* rejection, resolves when both are fulfilled (return { status: 'success' })
\* and otherwise stays pending.  A promise that settles after the rejection
\* changes nothing.
SettleAll(r, at) ==
    IF r.pc # "deliver" THEN r
    ELSE IF "failed" \in {r.send, r.save} THEN ThrowRun(r, at)
    ELSE IF r.send = "done" /\ r.save = "done"
         THEN [r EXCEPT !.pc = "returned", !.status = "success"]
         ELSE r

\* sendWhatsAppMessage(from, aiResponse) settles.
SendReply(e) ==
    /\ run[e].send = "pending"
    /\ \E ok \in BOOLEAN :
         IF ok
         THEN SetRun(e, SettleAll([run[e] EXCEPT !.send = "done",
                           !.delivered = @ \cup {"aiResponse"}],
                           "sendWhatsAppMessage"))
         ELSE SetRun(e, SettleAll([run[e] EXCEPT !.send = "failed"],
                           "sendWhatsAppMessage"))
    /\ UNCHANGED <<requestCount, delayedMessages, processingDelayed, drains,
                   users, messages, submitted, from, deferred, drainSince, window,
                   inserted, front, single>>

\* saveMessage(from, message.messageContent, aiResponse) settles: one insert
\* of the user row and the assistant row.
SaveMessage(e) ==
    /\ run[e].save = "pending"
    /\ \E ok \in BOOLEAN :
         IF ok
         THEN /\ messages' = messages \o
                     <<MessageRow(from[e], "user", e),
                       MessageRow(from[e], "assistant", e)>>
              /\ SetRun(e, SettleAll([run[e] EXCEPT !.save = "done",
                              !.turns = @ + 2], "saveMessage"))
         ELSE /\ SetRun(e, SettleAll([run[e] EXCEPT !.save = "failed"],
                              "saveMessage"))
              /\ UNCHANGED messages
    /\ UNCHANGED <<requestCount, delayedMessages, processingDelayed, drains,
                   users, submitted, from, deferred, drainSince, window,
                   inserted, front, single>>

\* ------------------------------------------------------- queueService
\* The events whose execution of processMessageDirectly is in progress.
InFlight ==
    {e \in Events : run[e].pc \notin {"idle", "queued", "returned", "threw"}}

\* The set of the events in the buffer.
Buffered == {delayedMessages[i] : i \in 1..Len(delayedMessages)}

\* What handleMessage of queueService has given its caller for event e:
\* { delayed: true } at once for a buffered event, otherwise the result or
\* the error of the awaited processMessageDirectly.
HandleMessageResult(e) ==
    IF e \in deferred THEN "delayed"
    ELSE IF run[e].pc = "returned" THEN run[e].status
    ELSE IF run[e].pc = "threw" THEN "error"
    ELSE "pending"

\* handleMessage with the comparison requestCount >= RATE_LIMIT_THRESHOLD.
QueueHandler_OffByOne(e) ==
    /\ requestCount' = requestCount + 1
    /\ IF requestCount' >= RATE_LIMIT_THRESHOLD
       THEN /\ delayedMessages' = Append(delayedMessages, e)
            /\ deferred' = deferred \cup {e}
            /\ run' = [run EXCEPT ![e].pc = "queued"]
            /\ controller' = [controller EXCEPT ![e].pc = "returned"]
            /\ window' = Append(window, "buffered")
       ELSE /\ run' = [run EXCEPT ![e] = StartRun(@)]
            /\ controller' = [controller EXCEPT ![e].pc = "awaiting"]
            /\ window' = Append(window, "inline")
            /\ UNCHANGED <<delayedMessages, deferred>>

\* handleMessage that puts a delayed event at the front of the buffer
\* (unshift instead of push).
QueueHandler_Unshift(e) ==
    /\ requestCount' = requestCount + 1
    /\ IF requestCount' > RATE_LIMIT_THRESHOLD
       THEN /\ delayedMessages' = <<e>> \o delayedMessages
            /\ deferred' = deferred \cup {e}
            /\ run' = [run EXCEPT ![e].pc = "queued"]
            /\ controller' = [controller EXCEPT ![e].pc = "returned"]
            /\ window' = Append(window, "buffered")
       ELSE /\ run' = [run EXCEPT ![e] = StartRun(@)]
            /\ controller' = [controller EXCEPT ![e].pc = "awaiting"]
            /\ window' = Append(window, "inline")
            /\ UNCHANGED <<delayedMessages, deferred>>

\* handleMessage of queueService (queueHandler in messageController) called
\* with the messageData of event e: requestCount++; above the threshold the
\* event is pushed and { delayed: true } is returned, which the controller
\* logs and returns; otherwise processMessageDirectly is called and awaited,
\* and the controller awaits with it.
QueueHandler(e) ==
    /\ requestCount' = requestCount + 1
    /\ IF requestCount' > RATE_LIMIT_THRESHOLD
       THEN /\ delayedMessages' = Append(delayedMessages, e)
            /\ deferred' = deferred \cup {e}
            /\ run' = [run EXCEPT ![e].pc = "queued"]
            /\ controller' = [controller EXCEPT ![e].pc = "returned"]
            /\ window' = Append(window, "buffered")
       ELSE /\ run' = [run EXCEPT ![e] = StartRun(@)]
            /\ controller' = [controller EXCEPT ![e].pc = "awaiting"]
            /\ window' = Append(window, "inline")
            /\ UNCHANGED <<delayedMessages, deferred>>

\* The next inbound event, a text message sent by u, is handed to
\* handleMessage of queueService by handleMessage of messageController.
HandleMessage(u) ==
    /\ submitted < MaxEvents
    /\ Cardinality(InFlight) < MaxInFlight
    /\ LET e == submitted + 1
       IN  /\ submitted' = e
           /\ from' = [from EXCEPT ![e] = u]
           /\ QueueHandler(e)
    /\ UNCHANGED <<processingDelayed, drains, users, messages, drainSince,
                   inserted, front, single>>

\* The callback of setInterval without the test of processingDelayed.
Tick_NoBusyTest ==
    /\ requestCount' = 0
    /\ IF Len(delayedMessages) > 0
       THEN LET e == Head(delayedMessages)
            IN  /\ processingDelayed' = TRUE
                /\ delayedMessages' = Tail(delayedMessages)
                /\ drains' = drains \cup {[pc |-> "await", cur |-> e]}
                /\ SetRun(e, StartRun(run[e]))
                /\ drainSince' = drainSince \cup Buffered
       ELSE UNCHANGED <<processingDelayed, delayedMessages, drains, run,
                        controller, drainSince>>
    /\ window' = <<>>
    /\ UNCHANGED <<users, messages, submitted, from, deferred, inserted,
                   front, single>>

\* The callback of setInterval that leaves requestCount alone while a drain
\* is in progress.
Tick_NoResetWhileDraining ==
    /\ requestCount' = IF processingDelayed THEN requestCount ELSE 0
    /\ IF Len(delayedMessages) > 0 /\ ~processingDelayed
       THEN LET e == Head(delayedMessages)
            IN  /\ processingDelayed' = TRUE
                /\ delayedMessages' = Tail(delayedMessages)
                /\ drains' = drains \cup {[pc |-> "await", cur |-> e]}
                /\ SetRun(e, StartRun(run[e]))
                /\ drainSince' = drainSince \cup Buffered
       ELSE UNCHANGED <<processingDelayed, delayedMessages, drains, run,
                        controller, drainSince>>
    /\ window' = <<>>
    /\ UNCHANGED <<users, messages, submitted, from, deferred, inserted,
                   front, single>>

\* The callback of setInterval: requestCount = 0, and processDelayedMessages
\* is called if the buffer is not empty and no drain is in progress.
\* processDelayedMessages runs synchronously up to its first await: it sets
\* processingDelayed, shifts the first entry and calls
\* processMessageDirectly for it.
Tick ==
    /\ requestCount' = 0
    /\ IF Len(delayedMessages) > 0 /\ ~processingDelayed
       THEN LET e == Head(delayedMessages)
            IN  /\ processingDelayed' = TRUE
                /\ delayedMessages' = Tail(delayedMessages)
                /\ drains' = drains \cup {[pc |-> "await", cur |-> e]}
                /\ SetRun(e, StartRun(run[e]))
                /\ drainSince' = drainSince \cup Buffered
       ELSE UNCHANGED <<processingDelayed, delayedMessages, drains, run,
                        controller, drainSince>>
    /\ window' = <<>>
    /\ UNCHANGED <<users, messages, submitted, from, deferred, inserted,
                   front, single>>

\* processDelayedMessages without the finally block: an error ends the drain
\* and leaves processingDelayed set.
DrainAwait_NoFinally(d) ==
    /\ d \in drains
    /\ d.pc = "await"
    /\ Finished(d.cur)
    /\ IF run[d.cur].pc = "returned"
       THEN drains' = (drains \ {d}) \cup {[d EXCEPT !.pc = "pause"]}
       ELSE drains' = drains \ {d}
    /\ UNCHANGED <<requestCount, delayedMessages, processingDelayed, users,
                   messages, submitted, from, run, controller, deferred,
                   drainSince, window,
                   inserted, front, single>>

\* processDelayedMessages that pushes an entry whose run threw back to the
\* buffer for another try.
DrainAwait_Requeue(d) ==
    /\ d \in drains
    /\ d.pc = "await"
    /\ Finished(d.cur)
    /\ IF run[d.cur].pc = "returned"
       THEN /\ drains' = (drains \ {d}) \cup {[d EXCEPT !.pc = "pause"]}
            /\ UNCHANGED <<processingDelayed, delayedMessages>>
       ELSE /\ drains' = drains \ {d}
            /\ processingDelayed' = FALSE
            /\ delayedMessages' = Append(delayedMessages, d.cur)
    /\ UNCHANGED <<requestCount, users, messages, submitted, from, run,
                   controller, deferred, drainSince, window,
                   inserted, front, single>>

\* processDelayedMessages resumes after await processMessageDirectly(...):
\* on a result it starts the 100 ms pause; on an error the catch around the
\* loop logs it and finally clears processingDelayed.
DrainAwait(d) ==
    /\ d \in drains
    /\ d.pc = "await"
    /\ Finished(d.cur)
    /\ IF run[d.cur].pc = "returned"
       THEN /\ drains' = (drains \ {d}) \cup {[d EXCEPT !.pc = "pause"]}
            /\ UNCHANGED processingDelayed
       ELSE /\ drains' = drains \ {d}
            /\ processingDelayed' = FALSE
    /\ UNCHANGED <<requestCount, delayedMessages, users, messages, submitted,
                   from, run, controller, deferred, drainSince, window,
                   inserted, front, single>>

\* processDelayedMessages whose loop ends without clearing processingDelayed.
DrainPause_FlagKept(d) ==
    /\ d \in drains
    /\ d.pc = "pause"
    /\ IF Len(delayedMessages) > 0
       THEN LET e == Head(delayedMessages)
            IN  /\ delayedMessages' = Tail(delayedMessages)
                /\ drains' = (drains \ {d}) \cup {[pc |-> "await", cur |-> e]}
                /\ SetRun(e, StartRun(run[e]))
                /\ UNCHANGED processingDelayed
       ELSE /\ drains' = drains \ {d}
            /\ UNCHANGED <<processingDelayed, delayedMessages, run, controller>>
    /\ UNCHANGED <<requestCount, users, messages, submitted, from, deferred,
                   drainSince, window, inserted, front, single>>

\* processDelayedMessages resumes after the pause: the while condition is
\* tested again; the next entry is shifted and processed, or the loop ends
\* and finally clears processingDelayed.
DrainPause(d) ==
    /\ d \in drains
    /\ d.pc = "pause"
    /\ IF Len(delayedMessages) > 0
       THEN LET e == Head(delayedMessages)
            IN  /\ delayedMessages' = Tail(delayedMessages)
                /\ drains' = (drains \ {d}) \cup {[pc |-> "await", cur |-> e]}
                /\ SetRun(e, StartRun(run[e]))
                /\ UNCHANGED processingDelayed
       ELSE /\ drains' = drains \ {d}
            /\ processingDelayed' = FALSE
            /\ UNCHANGED <<delayedMessages, run, controller>>
    /\ UNCHANGED <<requestCount, users, messages, submitted, from, deferred,
                   drainSince, window,
                   inserted, front, single>>

\* ------------------------------------------------------------------ Next
Pipeline(e) ==
    \/ FindUserSelect(e)
    \/ FindUserInsert(e)
    \/ Step1Join(e)
    \/ UpdateSubscription(e)
    \/ IncrementSelect(e)
    \/ IncrementUpdate(e)
    \/ SendSubscriptionMessage(e)
    \/ GetConversationContext(e)
    \/ GenerateAIResponse(e)
    \/ SendReply(e)
    \/ SaveMessage(e)

Drain ==
    \/ \E d \in drains : DrainAwait(d)
    \/ \E d \in drains : DrainPause(d)

Next ==
    \/ \E u \in Senders : HandleMessage(u)
    \/ Tick
    \/ Drain
    \/ \E e \in Events : Pipeline(e)

Spec == Init /\ [][Next]_vars

\* The timer of setInterval keeps firing, a resumed drain loop runs, and every
\* collaborator call that was issued settles.  Nothing obliges a sender to
\* send.
Fairness ==
    /\ WF_vars(Tick)
    /\ WF_vars(Drain)
    /\ \A e \in Events : WF_vars(Pipeline(e))

\* The specification of the liveness of the queue.  The queue never reads
\* the sender of an event, so the senders are fixed here: the first event
\* comes from the new sender "b", the later ones from "a".
LiveSender(e) == IF e = 1 THEN "b" ELSE "a"

LiveNext ==
    \/ HandleMessage(LiveSender(submitted + 1))
    \/ Tick
    \/ Drain
    \/ \E e \in Events : Pipeline(e)

LiveSpec == Init /\ [][LiveNext]_vars /\ Fairness


\* ------------------------------------------------------- paymentService
\* The variables of the queue, the pipeline and the stores.
pipeline ==
    <<requestCount, delayedMessages, processingDelayed, drains, users,
      messages, submitted, from, run, controller, deferred, drainSince,
      window, inserted>>

\* The number of the customers stripe.customers.list answers with.
MaxCustomers == 2

\* A customer of the list: phone says that customer.phone or its metadata
\* holds the number, sub that an active or trialing subscription of the
\* expanded data carries the number in its metadata.
Customers == [phone : BOOLEAN, sub : BOOLEAN]

CustomerLists ==
    UNION {[1..n -> Customers] : n \in 0..MaxCustomers}

\* checkStripeSubscription returns b; last is the answer of Stripe it
\* returns on.
StripeReturn(o, b, last) ==
    [o EXCEPT !.pc = "done", !.result = b, !.last = last]

\* The for loop over allCustomers.data up to its first await or return:
\* the customers whose phone matches are handed to
\* checkCustomerSubscriptionStatus (skip: that call has just answered false
\* for the first customer of rest), then the expanded subscriptions decide.
RECURSIVE Walk(_, _)
Walk(rest, skip) ==
    IF rest = <<>> THEN [kind |-> "false", rest |-> <<>>]
    ELSE IF Head(rest).phone /\ ~skip THEN [kind |-> "status", rest |-> rest]
    ELSE IF Head(rest).sub THEN [kind |-> "true", rest |-> rest]
    ELSE Walk(Tail(rest), FALSE)

\* The loop has come to a return or to an await; last is the answer of
\* Stripe the loop was entered on.
ApplyWalk(o, w, last) ==
    IF w.kind = "true" THEN StripeReturn(o, TRUE, "matched")
    ELSE IF w.kind = "false" THEN StripeReturn(o, FALSE, last)
    ELSE [o EXCEPT !.pc = "status", !.sub = "subscriptions",
                   !.ret = "list", !.rest = w.rest, !.last = "listed"]

\* After the two searches by phone: stripe.customers.retrieve if the number
\* looks like a customer id, the list of the recent customers otherwise.
AfterSearch(o) ==
    IF o.phone = "cus_" THEN [o EXCEPT !.pc = "retrieve"]
    ELSE [o EXCEPT !.pc = "list"]

\* checkCustomerSubscriptionStatus has returned b to its caller.
StatusReturn(o, b, last) ==
    IF b THEN StripeReturn(o, TRUE, last)
    ELSE LET n == [o EXCEPT !.last = last]
         IN  IF o.ret = "search"
             THEN IF o.q = 1 THEN [n EXCEPT !.pc = "search", !.q = 2]
                  ELSE AfterSearch(n)
             ELSE IF o.ret = "retrieve" THEN [n EXCEPT !.pc = "list"]
             ELSE ApplyWalk(n, Walk(o.rest, TRUE), last)

\* A call of checkStripeSubscription up to its first await.
CheckStripeSubscription(ph) ==
    /\ oracle.pc \in {"none", "done"}
    /\ oracle' = [pc |-> "search", q |-> 1, phone |-> ph, sub |-> "none",
                  ret |-> "none", rest |-> <<>>, last |-> "none",
                  result |-> "none"]
    /\ UNCHANGED <<pipeline, front, prompting>>

\* stripe.customers.search whose error leaves checkStripeSubscription: the
\* catch block logs and throws, as the functions of databaseService do.
CustomersSearch_Rethrow ==
    /\ oracle.pc = "search"
    /\ \E ans \in {"error", "empty", "found"} :
         oracle' =
           IF ans = "error"
           THEN [oracle EXCEPT !.pc = "threw", !.last = "error"]
           ELSE IF ans = "empty"
           THEN IF oracle.q = 1
                THEN [oracle EXCEPT !.q = 2, !.last = "empty"]
                ELSE AfterSearch([oracle EXCEPT !.last = "empty"])
           ELSE [oracle EXCEPT !.pc = "status", !.sub = "subscriptions",
                               !.ret = "search", !.last = "found"]
    /\ UNCHANGED <<pipeline, front, prompting>>

\* stripe.customers.search settles: an error is caught by the outer catch
\* block, which returns false; no customer leads to the next query; a
\* customer leads to checkCustomerSubscriptionStatus.
CustomersSearch ==
    /\ oracle.pc = "search"
    /\ \E ans \in {"error", "empty", "found"} :
         oracle' =
           IF ans = "error" THEN StripeReturn(oracle, FALSE, "error")
           ELSE IF ans = "empty"
           THEN IF oracle.q = 1
                THEN [oracle EXCEPT !.q = 2, !.last = "empty"]
                ELSE AfterSearch([oracle EXCEPT !.last = "empty"])
           ELSE [oracle EXCEPT !.pc = "status", !.sub = "subscriptions",
                               !.ret = "search", !.last = "found"]
    /\ UNCHANGED <<pipeline, front, prompting>>

\* stripe.customers.retrieve settles: an error is caught by the inner catch
\* block and the fallback search follows, as for a deleted customer.
CustomersRetrieve ==
    /\ oracle.pc = "retrieve"
    /\ \E ans \in {"error", "deleted", "found"} :
         oracle' =
           IF ans = "found"
           THEN [oracle EXCEPT !.pc = "status", !.sub = "subscriptions",
                               !.ret = "retrieve", !.last = "found"]
           ELSE [oracle EXCEPT !.pc = "list", !.last = ans]
    /\ UNCHANGED <<pipeline, front, prompting>>

\* stripe.customers.list settles: an error is caught by the inner catch
\* block and false is returned; otherwise the loop over the customers runs.
CustomersList ==
    /\ oracle.pc = "list"
    /\ \/ oracle' = StripeReturn(oracle, FALSE, "error")
       \/ \E data \in CustomerLists :
             oracle' = ApplyWalk(oracle, Walk(data, FALSE), "unmatched")
    /\ UNCHANGED <<pipeline, front, prompting>>

\* stripe.subscriptions.list of checkCustomerSubscriptionStatus settles.
SubscriptionsList ==
    /\ oracle.pc = "status" /\ oracle.sub = "subscriptions"
    /\ \E ans \in {"error", "none", "active"} :
         oracle' =
           IF ans = "error" THEN StatusReturn(oracle, FALSE, "error")
           ELSE IF ans = "active" THEN StatusReturn(oracle, TRUE, "active")
           ELSE [oracle EXCEPT !.sub = "paymentIntents", !.last = "none"]
    /\ UNCHANGED <<pipeline, front, prompting>>

\* stripe.paymentIntents.list of checkCustomerSubscriptionStatus settles.
PaymentIntentsList ==
    /\ oracle.pc = "status" /\ oracle.sub = "paymentIntents"
    /\ \E ans \in {"error", "none", "succeeded"} :
         oracle' =
           IF ans = "error" THEN StatusReturn(oracle, FALSE, "error")
           ELSE IF ans = "succeeded"
           THEN StatusReturn(oracle, TRUE, "succeeded")
           ELSE [oracle EXCEPT !.sub = "invoices", !.last = "none"]
    /\ UNCHANGED <<pipeline, front, prompting>>

\* stripe.invoices.list of checkCustomerSubscriptionStatus settles.
InvoicesList ==
    /\ oracle.pc = "status" /\ oracle.sub = "invoices"
    /\ \E ans \in {"error", "empty", "paid"} :
         oracle' =
           IF ans = "paid" THEN StatusReturn(oracle, TRUE, "paid")
           ELSE StatusReturn(oracle, FALSE, ans)
    /\ UNCHANGED <<pipeline, front, prompting>>

StripeNext ==
    \/ \E ph \in {"digits", "cus_"} : CheckStripeSubscription(ph)
    \/ CustomersSearch
    \/ CustomersRetrieve
    \/ CustomersList
    \/ SubscriptionsList
    \/ PaymentIntentsList
    \/ InvoicesList

\* The specification of checkStripeSubscription: one call after the other,
\* Stripe answering each request in every way it can.
StripeSpec == Init /\ [][StripeNext]_vars

\* ------------------------------------------------- prompt construction
\* botConfig.ai.contextMessageLimit.
contextMessageLimit == 10

\* The number of the exchanges saved for the sender before the message.
MaxExchanges == 6

\* The contents of the rows saveMessage has inserted for exchange k.
Question(k) == <<"q1", "q2", "q3", "q4", "q5", "q6", "q7">>[k]
Answer(k) == <<"r1", "r2", "r3", "r4", "r5", "r6", "r7">>[k]

\* botConfig.ai.prompts.image and botConfig.ai.prompts.defaultContext.
WithCaption(caption) ==
    <<"Please analyze this image, say which plant it is and check for any health issues.: \"",
      caption, "\" in ", "{context}", ".">>
withoutCaption == <<"Please analyze this image in ", "{context}", ".">>
defaultContext == "plant health doctor"

\* String.prototype.replace with a string pattern: the first occurrence.
RECURSIVE Replace(_, _, _)
Replace(text, pattern, by) ==
    IF text = <<>> THEN <<>>
    ELSE IF Head(text) = pattern THEN <<by>> \o Tail(text)
    ELSE <<Head(text)>> \o Replace(Tail(text), pattern, by)

\* The messages the webhook delivers: a text with its body, an audio with
\* its transcription, an image with or without caption.
Inbound ==
    {[type |-> "text", body |-> "hello"],
     [type |-> "audio", body |-> "is it ill"],
     [type |-> "image", body |-> ""],
     [type |-> "image", body |-> "my fern"],
     [type |-> "image", body |-> "{context}"]}

\* messageContent and messageForAI as handleMessage of messageController
\* builds them.
MessageContent(m) ==
    IF m.type = "image"
    THEN IF m.body # "" THEN <<"Image with caption: ", m.body>>
         ELSE <<"Image sent by user">>
    ELSE <<m.body>>

MessageForAI(m) ==
    IF m.type = "image"
    THEN <<[type |-> "text",
            text |-> Replace(IF m.body # "" THEN WithCaption(m.body)
                             ELSE withoutCaption,
                             "{context}", defaultContext)],
           [type |-> "image_url", image_url |-> [url |-> "imageUrl"]]>>
    ELSE <<[type |-> "text", text |-> <<m.body>>]>>

\* The rows of the sender in messages, newest first: the two rows of one
\* insert carry the same created_at, and userFirst[k] says in which order
\* the database lists those of exchange k.
RECURSIVE Descending(_, _)
Descending(n, userFirst) ==
    IF n = 0 THEN <<>>
    ELSE (IF userFirst[n]
          THEN <<[role |-> "user", content |-> Question(n)],
                 [role |-> "assistant", content |-> Answer(n)]>>
          ELSE <<[role |-> "assistant", content |-> Answer(n)],
                 [role |-> "user", content |-> Question(n)]>>)
         \o Descending(n - 1, userFirst)

Limit(rows, n) == SubSeq(rows, 1, IF Len(rows) < n THEN Len(rows) ELSE n)

Reverse(rows) == [i \in 1..Len(rows) |-> rows[Len(rows) + 1 - i]]

\* contextMessages.map(msg => `${msg.role}: ${msg.content}`).join('\n')
RECURSIVE Join(_)
Join(rows) ==
    IF rows = <<>> THEN <<>>
    ELSE <<Head(rows).role, ": ", Head(rows).content>>
         \o (IF Tail(rows) = <<>> THEN <<>> ELSE <<"\n">> \o Join(Tail(rows)))

\* The message is built by the controller and handed over; n exchanges of
\* the sender are stored.
Ingest(m, n) ==
    /\ prompting.pc \in {"none", "prompted"}
    /\ prompting' = [pc |-> "getContext", messageType |-> m.type,
                     messageContent |-> MessageContent(m),
                     messageForAI |-> MessageForAI(m),
                     stored |-> n, context |-> <<>>, prompt |-> <<>>]
    /\ UNCHANGED <<pipeline, front, oracle>>

\* getConversationContext: order by created_at descending, limit, reverse.
ConversationContext ==
    /\ prompting.pc = "getContext"
    /\ \E userFirst \in [1..prompting.stored -> BOOLEAN] :
         prompting' = [prompting EXCEPT
             !.pc = "context",
             !.context = Reverse(Limit(Descending(prompting.stored, userFirst),
                                       contextMessageLimit))]
    /\ UNCHANGED <<pipeline, front, oracle>>

\* The prompt with messageForAI for every message that is not a text.
BuildPrompt_MediaAsIs ==
    /\ prompting.pc = "context"
    /\ prompting' = [prompting EXCEPT
         !.pc = "prompted",
         !.prompt =
             IF prompting.messageType # "text" THEN prompting.messageForAI
             ELSE <<[type |-> "text",
                     text |-> <<"Previous conversation:\n">>
                              \o Join(prompting.context)
                              \o <<"\n\nUser: ">>
                              \o prompting.messageContent
                              \o <<"\nAssistant:">>]>>]
    /\ UNCHANGED <<pipeline, front, oracle>>

\* The prompt of processMessageDirectly.
BuildPrompt ==
    /\ prompting.pc = "context"
    /\ prompting' = [prompting EXCEPT
         !.pc = "prompted",
         !.prompt =
             IF prompting.messageType = "image" THEN prompting.messageForAI
             ELSE <<[type |-> "text",
                     text |-> <<"Previous conversation:\n">>
                              \o Join(prompting.context)
                              \o <<"\n\nUser: ">>
                              \o prompting.messageContent
                              \o <<"\nAssistant:">>]>>]
    /\ UNCHANGED <<pipeline, front, oracle>>

PromptNext ==
    \/ \E m \in Inbound, n \in 0..MaxExchanges : Ingest(m, n)
    \/ ConversationContext
    \/ BuildPrompt

\* The specification of the prompt: one message after the other.
PromptSpec == Init /\ [][PromptNext]_vars

\* ------------------------------------------- the webhook and the controller
\* What a POST of the webhook carries: no message at all (a status
\* notification), or a message of type text, audio, image, or of a type the
\* controller has no branch for.
Payloads == {"noMessage", "text", "audio", "image", "sticker"}

\* The number of the messages of one behaviour of the webhook that the
\* controller hands, or may still hand, to queueHandler.
MaxAdmitted == 2

\* The events the controller has handed to queueHandler, or will once the
\* transcription or the download is there.
Admitted ==
    {e \in Events : run[e].pc # "idle" \/ controller[e].pc = "media"}

\* isBlockedCountry(from): the number of the sender starts with one of the
\* blocked country codes.
IsBlockedCountry(u) == u \in BlockedSenders

\* The first await of handleMessage of messageController for a message of
\* type p sent by u, and the text passed to whatsapp.sendText if that is
\* the call awaited.
ControllerAwait(p, u) ==
    IF IsBlockedCountry(u)
    THEN [pc |-> "notify", error |-> "none",
          sendText |-> {"blockedCountries.message"}]
    ELSE IF p \in {"audio", "image"}
    THEN [pc |-> "media", error |-> "none", sendText |-> {}]
    ELSE [pc |-> "notify", error |-> "none",
          sendText |-> {"errors.unsupportedType"}]

\* handleMessage of messageController without the isBlockedCountry test in
\* front of the text branch: a text message of a blocked sender is queued.
Post_NoBlockCheck(p, u) ==
    /\ submitted < MaxEvents
    /\ Cardinality(InFlight) < MaxInFlight
    /\ (p \in {"text", "audio", "image"} /\ ~IsBlockedCountry(u))
           => Cardinality(Admitted) < MaxAdmitted
    /\ LET e == submitted + 1
       IN  /\ submitted' = e
           /\ payload' = [payload EXCEPT ![e] = p]
           /\ response' = [response EXCEPT ![e] = 200]
           /\ IF p = "noMessage"
              THEN /\ controller' = [controller EXCEPT ![e].pc = "returned"]
                   /\ UNCHANGED <<from, requestCount, delayedMessages,
                                  deferred, run, window>>
              ELSE /\ from' = [from EXCEPT ![e] = u]
                   /\ IF p = "text"
                      THEN QueueHandler(e)
                      ELSE /\ controller' = [controller EXCEPT ![e] =
                                                 ControllerAwait(p, u)]
                           /\ UNCHANGED <<requestCount, delayedMessages,
                                          deferred, run, window>>
    /\ UNCHANGED <<processingDelayed, drains, users, messages, drainSince,
                   inserted, single>>

\* router.post('/whatsapp') that acknowledges after the controller is done:
\* res.sendStatus(200) placed behind await messageController.handleMessage.
Post_AckAfterProcessing(p, u) ==
    /\ submitted < MaxEvents
    /\ Cardinality(InFlight) < MaxInFlight
    /\ (p \in {"text", "audio", "image"} /\ ~IsBlockedCountry(u))
           => Cardinality(Admitted) < MaxAdmitted
    /\ LET e == submitted + 1
       IN  /\ submitted' = e
           /\ payload' = [payload EXCEPT ![e] = p]
           /\ response' = [response EXCEPT ![e] =
                               IF p = "noMessage" THEN 200 ELSE 0]
           /\ IF p = "noMessage"
              THEN /\ controller' = [controller EXCEPT ![e].pc = "returned"]
                   /\ UNCHANGED <<from, requestCount, delayedMessages,
                                  deferred, run, window>>
              ELSE /\ from' = [from EXCEPT ![e] = u]
                   /\ IF p = "text" /\ ~IsBlockedCountry(u)
                      THEN QueueHandler(e)
                      ELSE /\ controller' = [controller EXCEPT ![e] =
                                                 ControllerAwait(p, u)]
                           /\ UNCHANGED <<requestCount, delayedMessages,
                                          deferred, run, window>>
    /\ UNCHANGED <<processingDelayed, drains, users, messages, drainSince,
                   inserted, single>>

\* A POST arrives: router.post sends 200 and calls handleMessage of
\* messageController, which runs up to its first await.  Without a message
\* it returns at once; for a blocked sender it sends the blocked-country
\* message; a text message goes to queueHandler directly; audio and image
\* wait for the transcription or the download; any other type is answered
\* with the unsupported-type message.
Post(p, u) ==
    /\ submitted < MaxEvents
    /\ Cardinality(InFlight) < MaxInFlight
    /\ (p \in {"text", "audio", "image"} /\ ~IsBlockedCountry(u))
           => Cardinality(Admitted) < MaxAdmitted
    /\ LET e == submitted + 1
       IN  /\ submitted' = e
           /\ payload' = [payload EXCEPT ![e] = p]
           /\ response' = [response EXCEPT ![e] = 200]
           /\ IF p = "noMessage"
              THEN /\ controller' = [controller EXCEPT ![e].pc = "returned"]
                   /\ UNCHANGED <<from, requestCount, delayedMessages,
                                  deferred, run, window>>
              ELSE /\ from' = [from EXCEPT ![e] = u]
                   /\ IF p = "text" /\ ~IsBlockedCountry(u)
                      THEN QueueHandler(e)
                      ELSE /\ controller' = [controller EXCEPT ![e] =
                                                 ControllerAwait(p, u)]
                           /\ UNCHANGED <<requestCount, delayedMessages,
                                          deferred, run, window>>
    /\ UNCHANGED <<processingDelayed, drains, users, messages, drainSince,
                   inserted, single>>

\* whatsapp.sendText of the blocked-country or unsupported-type message
\* settles: the controller returns, or the error enters its catch block.
NotifySettle(e) ==
    /\ controller[e].pc = "notify"
    /\ \E ok \in BOOLEAN :
         controller' = [controller EXCEPT ![e] =
             IF ok THEN [@ EXCEPT !.pc = "returned"] ELSE ControllerCatch(@)]
    /\ UNCHANGED <<requestCount, delayedMessages, processingDelayed, drains,
                   users, messages, submitted, from, run, deferred,
                   drainSince, window, inserted, front, single>>

\* transcribeAudio or downloadImageFromWhatsApp settles: the controller
\* builds messageContent and messageForAI and calls queueHandler, or the
\* error enters its catch block.
MediaSettle(e) ==
    /\ controller[e].pc = "media"
    /\ Cardinality(InFlight) < MaxInFlight
    /\ \E ok \in BOOLEAN :
         IF ok
         THEN QueueHandler(e)
         ELSE /\ controller' = [controller EXCEPT ![e] = ControllerCatch(@)]
              /\ UNCHANGED <<requestCount, delayedMessages, deferred, run,
                             window>>
    /\ UNCHANGED <<processingDelayed, drains, users, messages, submitted,
                   from, drainSince, inserted, front, single>>

\* The senders of the specification of the webhook: the known sender and a
\* sender of a blocked country.
FrontSenders == {"a"} \cup BlockedSenders

\* The pipeline steps of a sender whose users row exists.
KnownPipeline(e) ==
    \/ FindUserSelect(e)
    \/ Step1Join(e)
    \/ UpdateSubscription(e)
    \/ IncrementSelect(e)
    \/ IncrementUpdate(e)
    \/ SendSubscriptionMessage(e)
    \/ GetConversationContext(e)
    \/ GenerateAIResponse(e)
    \/ SendReply(e)
    \/ SaveMessage(e)

FrontNext ==
    \/ \E p \in Payloads, u \in FrontSenders : Post(p, u)
    \/ \E e \in Events : NotifySettle(e)
    \/ \E e \in Events : MediaSettle(e)
    \/ Tick
    \/ Drain
    \/ \E e \in Events : KnownPipeline(e)

\* The specification of the webhook: every kind of payload arrives.
FrontSpec == Init /\ [][FrontNext]_vars

\* ------------------------------------------------------------ claims
\* C1 as stated: every call of handleMessage increments requestCount first;
\* up to the threshold the event is run inline; above it the event is pushed,
\* { delayed: true } is returned, and no collaborator is called for the event
\* before a later window tick starts a drain.
C1_NoCallBeforeLaterTick ==
    \A e \in deferred : run[e].calls # {} => e \in drainSince

\* C1 amended: the admission step increments requestCount and then either
\* starts processMessageDirectly (counter <= threshold) or appends the event
\* and returns the delayed outcome with no collaborator called; no
\* collaborator is called for an event while it is in the buffer; an event
\* leaves the buffer only by being shifted by a drain, which may be one that
\* an earlier tick started.
C1_AdmissionStep ==
    submitted' = submitted + 1 =>
        LET e == submitted + 1
        IN  /\ requestCount' = requestCount + 1
            /\ IF requestCount' <= RATE_LIMIT_THRESHOLD
               THEN /\ run'[e].pc = "findUser"
                    /\ delayedMessages' = delayedMessages
                    /\ e \notin deferred'
               ELSE /\ delayedMessages' = Append(delayedMessages, e)
                    /\ run'[e].pc = "queued"
                    /\ run'[e].calls = {}
                    /\ e \in deferred'

C1_ShiftedByDrain ==
    \A e \in Buffered :
        e \notin Buffered' => \E d \in drains' : d.pc = "await" /\ d.cur = e

C1_BufferedUntouched ==
    \A e \in Buffered : run[e].pc = "queued" /\ run[e].calls = {}

C1_Admission ==
    /\ [][C1_AdmissionStep]_vars
    /\ [][C1_ShiftedByDrain]_vars
    /\ []C1_BufferedUntouched

\* C1 witness: one event was run inline and has returned, and a buffered
\* event was processed by a drain that no tick after its push had started.
C1_Witness ==
    \E e1, e2 \in Events :
        /\ HandleMessageResult(e1) \in {"subscription_required", "success"}
        /\ HandleMessageResult(e2) = "delayed"
        /\ Finished(e2) /\ e2 \notin drainSince

\* C2: under fairness of the window tick, the drain loop and the pipeline
\* steps, every buffered event is eventually shifted and run through the
\* pipeline to its end, and a non-empty buffer eventually becomes empty.
C2_BufferDrains ==
    /\ \A e \in Events : (e \in Buffered) ~> Finished(e)
    /\ (delayedMessages # <<>>) ~> (delayedMessages = <<>>)

\* C2 witness: two events were buffered, both have been run to their end,
\* one of them with an error, and the buffer is empty.
C2_Witness ==
    /\ delayedMessages = <<>>
    /\ Cardinality(deferred) >= 2
    /\ \A e \in deferred : Finished(e)
    /\ \E e \in deferred : run[e].pc = "threw"

\* C3: at most one execution of processDelayedMessages is in progress in
\* every reachable state, and a tick that fires while one is in progress
\* resets requestCount, starts no drain and leaves the buffer alone.
C3_TickWhileDraining ==
    (Tick /\ drains # {}) =>
        /\ requestCount' = 0
        /\ drains' = drains
        /\ delayedMessages' = delayedMessages
        /\ run' = run

C3_DrainsNeverOverlap ==
    /\ [](Cardinality(drains) <= 1)
    /\ [][C3_TickWhileDraining]_vars

\* C3 witness: a drain is in progress, and a tick has fired since an event
\* was pushed behind it: the counter is back at 0, the event is still in the
\* buffer and no drain was started for it.
C3_Witness ==
    /\ drains # {}
    /\ requestCount = 0
    /\ \E e \in Buffered : e \notin drainSince

\* C4 as stated: when the pipeline fails for a shifted entry while further
\* entries remain in the buffer, the same drain goes on to shift and process
\* the next entry.
C4_DrainSurvivesError ==
    [][\A d \in drains :
          (/\ d.pc = "await"
           /\ run[d.cur].pc = "threw"
           /\ delayedMessages # <<>>
           /\ d \notin drains')
          => \E d2 \in drains' : d2.cur = Head(delayedMessages)]_vars

\* The rows of the messages table that belong to event e.
Turns(e) == {i \in 1..Len(messages) : messages[i].content = e}

\* The runs that have passed the count step: incrementMessageCount has
\* returned the updated count.
Counted(e) == run[e].messageCount > 0

\* C5 as stated: a run whose updated messageCount exceeds the free limit and
\* whose sender is not subscribed sends the subscription message, returns
\* subscription_required and does not call generateAIResponse.
C5_UpsellAboveLimit ==
    \A e \in Events :
        (run[e].messageCount > FREE_MESSAGE_LIMIT /\ ~run[e].isSubscribed) =>
            /\ "generateAIResponse" \notin run[e].calls
            /\ "sendSubscriptionMessage" \in run[e].calls
            /\ run[e].pc = "returned" =>
                   /\ run[e].status = "subscription_required"
                   /\ "subscriptionMessage" \in run[e].delivered

\* C6 as stated: a run whose entitlement check returned true calls
\* generateAIResponse whatever the count is and never sends the subscription
\* message.
C6_SubscriberServed ==
    \A e \in Events :
        (Counted(e) /\ run[e].isSubscribed) =>
            /\ "sendSubscriptionMessage" \notin run[e].calls
            /\ "subscriptionMessage" \notin run[e].delivered
            /\ run[e].pc \in {"getContext", "generate", "deliver"}
                   \/ Finished(e)
            /\ run[e].pc = "returned" => run[e].status = "success"

\* The message_count the row of sender u started with.
StoredAtStart(u) == IF u = "a" THEN CHOOSE c \in InitCounts : TRUE ELSE 0

\* C7 as stated: the stored messageCount of a sender has grown by exactly
\* the number of runs of that sender that have passed the count step.
C7_CountedExactlyOnce ==
    \A u \in DOMAIN users :
        users[u].message_count =
            StoredAtStart(u)
            + Cardinality({e \in Events : from[e] = u /\ Counted(e)})

\* C8 as stated: no write ever lowers the stored messageCount of a sender.
C8_CountNeverDecreases ==
    [][\A u \in DOMAIN users :
          users'[u].message_count >= users[u].message_count]_vars

\* C9 as stated: a run of a sender that is not subscribed and whose updated
\* count is within the free limit fetches the context, calls
\* generateAIResponse, delivers the reply, inserts the two rows and returns
\* success.
C9_FreeTierServed ==
    \A e \in Events :
        (/\ Counted(e)
         /\ run[e].messageCount <= FREE_MESSAGE_LIMIT
         /\ ~run[e].isSubscribed
         /\ run[e].pc = "returned") =>
            /\ run[e].status = "success"
            /\ {"getConversationContext", "generateAIResponse"}
                   \subseteq run[e].calls
            /\ "aiResponse" \in run[e].delivered
            /\ Cardinality(Turns(e)) = 2

\* C10: a run in which generateAIResponse failed has thrown: it returned no
\* result, neither call of the final Promise.all was issued, no reply was
\* delivered and no row of the messages table belongs to its event.
C10_GenerateFailureSkipsDelivery ==
    \A e \in Events :
        run[e].failedAt = "generateAIResponse" =>
            /\ run[e].pc = "threw"
            /\ run[e].status = "none"
            /\ HandleMessageResult(e) \in {"error", "delayed"}
            /\ run[e].send = "none" /\ run[e].save = "none"
            /\ {"sendWhatsAppMessage", "saveMessage"} \cap run[e].calls = {}
            /\ "aiResponse" \notin run[e].delivered
            /\ Turns(e) = {}

\* C10 witness: generateAIResponse was called and failed, while another run
\* has delivered its reply and saved its rows.
C10_Witness ==
    \E e1, e2 \in Events :
        /\ run[e1].failedAt = "generateAIResponse"
        /\ "generateAIResponse" \in run[e1].calls
        /\ run[e2].status = "success"

\* C11 as stated: whenever a pipeline step other than updateSubscription
\* has failed for an event, inline or deferred, the send of
\* botConfig.errors.general to the sender of the event has been attempted.
C11_ErrorNotified ==
    \A e \in Events :
        (run[e].pc = "threw" /\ run[e].failedAt # "updateSubscription") =>
            "errors.general" \in controller[e].sendText

\* C12 as stated: a failure of updateSubscription does not end the run: the
\* run goes on to call incrementMessageCount.
C12_ReconciliationFailureSwallowed ==
    \A e \in Events :
        run[e].failedAt = "updateSubscription" =>
            /\ run[e].pc # "threw"
            /\ "incrementMessageCount" \in run[e].calls

\* C13: the i-th request of a window is dispatched inline exactly if
\* i <= RATE_LIMIT_THRESHOLD and is buffered otherwise; the counter changes
\* only by one submit or by a tick, and every tick sets it to 0, drain or no
\* drain; a tick that finds entries in the buffer and no drain in progress
\* starts a drain with the head of the buffer; at no moment more than one
\* buffered event has its pipeline in flight.
C13_WindowAdmission ==
    \A i \in 1..Len(window) :
        window[i] = "inline" <=> i <= RATE_LIMIT_THRESHOLD

C13_CounterStep ==
    /\ requestCount' # requestCount =>
           requestCount' \in {0, requestCount + 1}
    /\ Tick => requestCount' = 0
    /\ (Tick /\ delayedMessages # <<>> /\ drains = {}) =>
           /\ drains' = {[pc |-> "await", cur |-> Head(delayedMessages)]}
           /\ delayedMessages' = Tail(delayedMessages)
           /\ run'[Head(delayedMessages)].pc = "findUser"

C13_OneDrainedInFlight == Cardinality(deferred \cap InFlight) <= 1

C13_WindowThreshold ==
    /\ []C13_WindowAdmission
    /\ [][C13_CounterStep]_vars
    /\ []C13_OneDrainedInFlight

\* C13 witness: MaxEvents submits arrived in one window that started empty:
\* RATE_LIMIT_THRESHOLD of them ran inline and the others were buffered; the
\* next tick has reset the counter and started a drain, which runs the first
\* buffered event while the others wait in the buffer.
C13_Witness ==
    /\ submitted = MaxEvents
    /\ deferred = {e \in Events : e > RATE_LIMIT_THRESHOLD}
    /\ drainSince = deferred
    /\ requestCount = 0
    /\ \E d \in drains : d.cur \in InFlight /\ d.cur = RATE_LIMIT_THRESHOLD + 1
    /\ delayedMessages # <<>>

\* The runs that have taken the limit decision, and the branch they took.
Decided(e) ==
    {"sendSubscriptionMessage", "getConversationContext"} \cap run[e].calls
        # {}

\* C14: every started run has called checkSubscription, and the branch a run
\* took at the limit check is the one that the count it got and the answer
\* checkSubscription gave to that run select, whatever is_subscribed the
\* users row holds.
C14_EntitlementFromOracle ==
    \A e \in Events :
        /\ run[e].starts > 0 => "checkSubscription" \in run[e].calls
        /\ Decided(e) =>
               ("sendSubscriptionMessage" \in run[e].calls
                   <=> SubscriptionRequired(run[e].messageCount,
                                            run[e].isSubscribed))

\* C14 witness: a run has just taken the limit decision with a count above
\* the free limit, so that the entitlement decides, while the users row of
\* its sender holds the opposite flag.
C14_Witness ==
    \E e \in Events :
        /\ run[e].pc \in {"sendUpsell", "getContext"}
        /\ run[e].messageCount > FREE_MESSAGE_LIMIT
        /\ users[from[e]].is_subscribed # run[e].isSubscribed

\* C15: a run whose findOrCreateUser of step 1 failed has thrown without
\* calling updateSubscription, incrementMessageCount or generateAIResponse,
\* no row of the messages table belongs to its event, and the step at which
\* the lookup failed wrote neither table.  (checkSubscription answers false
\* on an error of its own, so the lookup is the part of step 1 that can
\* fail.)
C15_NothingCalledAfterLookupFailure ==
    \A e \in Events :
        run[e].failedAt = "findOrCreateUser" =>
            /\ run[e].pc = "threw"
            /\ run[e].calls = {"checkSubscription", "findOrCreateUser"}
            /\ ~Counted(e)
            /\ run[e].delivered = {}
            /\ Turns(e) = {}

C15_LookupFailureWritesNothing ==
    \A e \in Events :
        (run[e].failedAt = "none" /\ run'[e].failedAt = "findOrCreateUser")
            => users' = users /\ messages' = messages

C15_NoPartialCommit ==
    /\ []C15_NothingCalledAfterLookupFailure
    /\ [][C15_LookupFailureWritesNothing]_vars

\* C15 witness: the lookup of step 1 has failed for an event of a sender
\* whose users row exists, and the row is as it was at the start.
C15_Witness ==
    \E e \in Events :
        /\ run[e].failedAt = "findOrCreateUser"
        /\ from[e] = "a"
        /\ users["a"] = UserRow(StoredAtStart("a"), FALSE)

\* The runs for which generateAIResponse has returned a reply.
Generated(e) ==
    /\ "generateAIResponse" \in run[e].calls
    /\ run[e].pc # "generate"
    /\ run[e].failedAt # "generateAIResponse"

\* C16: for every generated reply both sendWhatsAppMessage and saveMessage
\* have been called; the settling of one of the two leaves the other as it
\* is, so a failure of one neither stops nor cancels the other; a delivered
\* reply stays delivered and inserted rows stay in the table.
C16_BothStarted ==
    \A e \in Events :
        Generated(e) =>
            /\ {"sendWhatsAppMessage", "saveMessage"} \subseteq run[e].calls
            /\ run[e].send # "none" /\ run[e].save # "none"

C16_Independent ==
    \A e \in Events :
        /\ (run[e].send = "pending" /\ run'[e].send # "pending")
               => run'[e].send \in {"done", "failed"}
                  /\ run'[e].save = run[e].save
        /\ (run[e].save = "pending" /\ run'[e].save # "pending")
               => run'[e].save \in {"done", "failed"}
                  /\ run'[e].send = run[e].send
        /\ run[e].delivered \subseteq run'[e].delivered
        /\ Turns(e) \subseteq Turns(e)'

C16_DeliverAndPersistIndependent ==
    /\ []C16_BothStarted
    /\ [][C16_Independent]_vars

\* C16 witness: one reply could not be delivered and its two rows are in the
\* table; the rows of another reply could not be inserted and the reply was
\* delivered.
C16_Witness ==
    \E e1, e2 \in Events :
        /\ run[e1].send = "failed" /\ Cardinality(Turns(e1)) = 2
        /\ run[e2].save = "failed" /\ "aiResponse" \in run[e2].delivered
        /\ Turns(e2) = {}

\* C17: in every reachable state processMessageDirectly has been called at
\* most once for every event; the buffer holds no event twice; and no event
\* in the buffer has been run: an inline event is never in it, a shifted
\* entry is no longer in it, and an event whose run returned or threw is
\* never in it again.
C17_AtMostOnce ==
    /\ \A e \in Events : run[e].starts <= 1
    /\ Cardinality(Buffered) = Len(delayedMessages)
    /\ \A e \in Buffered : run[e].starts = 0 /\ controller[e].pc # "awaiting"

\* C17 witness: a buffered event was shifted and its run threw, the drain
\* ended, and a later drain has run the next buffered event to its end
\* while the failed one was not run again.
C17_Witness ==
    \E e1, e2 \in deferred :
        /\ e1 < e2
        /\ run[e1].pc = "threw" /\ run[e1].starts = 1
        /\ Finished(e2)
        /\ drains = {} /\ delayedMessages = <<>>

\* C18: events are pushed in the order of their arrival, so of two buffered
\* events the one with the smaller number was pushed first.  The buffer is
\* in that order, and whenever the later of two buffered events has been
\* started, the earlier one has returned or thrown.
C18_DeferredFifo ==
    /\ \A i, j \in 1..Len(delayedMessages) :
           i < j => delayedMessages[i] < delayedMessages[j]
    /\ \A e1, e2 \in deferred :
           (e1 < e2 /\ run[e2].starts > 0) => Finished(e1)

\* C18 witness: the run of the first of two buffered events threw, which
\* ended the drain, and the second one is being run by the drain that a
\* later tick started.
C18_Witness ==
    \E e1, e2 \in deferred :
        /\ e1 < e2
        /\ run[e1].pc = "threw"
        /\ e2 \in InFlight
        /\ \E d \in drains : d.cur = e2

\* C19: a run that took the subscription_required branch has made no call
\* but sendWhatsAppMessage with the subscription message after the limit
\* check: no getConversationContext, no generateAIResponse, no reply, no
\* row in the messages table; and the step that ends it writes neither
\* table, so the incremented message_count is not taken back.
C19_UpsellOnly ==
    \A e \in Events :
        "sendSubscriptionMessage" \in run[e].calls =>
            /\ run[e].calls = {"checkSubscription", "findOrCreateUser",
                               "incrementMessageCount",
                               "sendSubscriptionMessage"}
                   \cup (run[e].calls \cap {"updateSubscription"})
            /\ run[e].delivered \subseteq {"subscriptionMessage"}
            /\ run[e].send = "none" /\ run[e].save = "none"
            /\ Turns(e) = {}
            /\ run[e].pc = "returned" =>
                   /\ run[e].status = "subscription_required"
                   /\ run[e].delivered = {"subscriptionMessage"}

C19_UpsellWritesNothing ==
    \A e \in Events :
        (run[e].pc = "sendUpsell" /\ run'[e].pc # "sendUpsell")
            => users' = users /\ messages' = messages

C19_LimitReachedFrame ==
    /\ []C19_UpsellOnly
    /\ [][C19_UpsellWritesNothing]_vars

\* C19 witness: a run has returned subscription_required and the users row
\* of its sender holds the count the run wrote.
C19_Witness ==
    \E e \in Events :
        /\ run[e].status = "subscription_required"
        /\ users[from[e]].message_count = run[e].messageCount
        /\ run[e].messageCount = StoredAtStart(from[e]) + 1

\* C20 as stated: updateSubscription is called only when the answer of
\* checkSubscription differs from is_subscribed of the users row, and when
\* step 2 of a run is over without an error, is_subscribed of the users row
\* equals the answer that run got.
C20_FlagReconciledStep ==
    \A e \in Events :
        /\ (run[e].pc = "join" /\ run'[e].pc = "updateSub")
               => users[from[e]].is_subscribed # run'[e].isSubscribed
        /\ (run[e].pc \in {"join", "updateSub"} /\ run'[e].pc = "incSelect")
               => users'[from[e]].is_subscribed = run'[e].isSubscribed

C20_FlagReconciled == [][C20_FlagReconciledStep]_vars

\* The number of rows of the users table with user_id u: the row the table
\* started with, and the rows inserted since.
UserRows(u) == (IF u = "a" THEN 1 ELSE 0) + inserted[u]

\* The runs of sender u that have gone past step 1.
PastLookup(u) ==
    {e \in Events : from[e] = u /\ run[e].calls \cap
        {"updateSubscription", "incrementMessageCount"} # {}}

\* C23: in every reachable state the users table holds at most one row per
\* sender, also after two runs of a new sender have both found no row and
\* both tried the insert; a row that was there is still there, since nothing
\* deletes rows; and a row is inserted with message_count 0 and
\* is_subscribed false.
C23_OneUserRecordPerSender ==
    \A u \in AllSenders :
        /\ UserRows(u) <= 1
        /\ UserRows(u) = 1 <=> u \in DOMAIN users
        /\ (inserted[u] = 1 /\ PastLookup(u) = {})
               => users[u] = UserRow(0, FALSE)

\* C23 witness: two runs of the new sender "b" have both reached the insert;
\* one has inserted the row and the other one has failed on it.
C23_Witness ==
    \E e1, e2 \in Events :
        /\ e1 # e2 /\ from[e1] = "b" /\ from[e2] = "b"
        /\ inserted["b"] = 1
        /\ "updateSubscription" \in run[e1].calls
               \/ "incrementMessageCount" \in run[e1].calls
        /\ run[e2].failedAt = "findOrCreateUser"
        /\ "b" \in DOMAIN users

\* C25: in every reachable state processingDelayed is true exactly if an
\* execution of processDelayedMessages is in progress: it is set when the
\* drain starts, before the first shift, and cleared when the drain ends,
\* by the end of the loop or by an error.
C25_FlagIffDraining == processingDelayed <=> drains # {}

\* C25 witness: a drain has ended with the error of a run, the flag is
\* cleared and the buffer still holds an event for the next tick.
C25_Witness ==
    /\ ~processingDelayed
    /\ delayedMessages # <<>>
    /\ \E e \in deferred : run[e].pc = "threw"


\* The events whose payload the controller turns away: a payload without a
\* message, a message of a blocked sender, a message of an unsupported type.
Rejected(e) ==
    \/ payload[e] = "noMessage"
    \/ /\ payload[e] # "none"
       /\ \/ IsBlockedCountry(from[e])
          \/ payload[e] \notin {"text", "audio", "image"}

\* The one notice the controller sends for a rejected event.
Notice(e) ==
    IF payload[e] = "noMessage" THEN {}
    ELSE IF IsBlockedCountry(from[e]) THEN {"blockedCountries.message"}
    ELSE {"errors.unsupportedType"}

\* C24: the POST handler of the webhook answers 200 before any processing
\* of the message starts, and neither a failure of the processing nor its
\* deferral changes the answer: every POST that has arrived stands answered
\* with 200, whatever became of its message (returned, failed, buffered, in
\* progress), and nothing is processed for a POST that is not answered.
C24_AcknowledgedFirst ==
    \A e \in Events :
        /\ e <= submitted => response[e] = 200
        /\ (controller[e] # NewController \/ run[e] # NewRun
                \/ e \in deferred) => response[e] = 200
        /\ response[e] \in {0, 200}

\* C24 witness: one POST whose controller threw and one whose message is
\* buffered, both answered with 200.
C24_Witness ==
    \E e1, e2 \in Events :
        /\ controller[e1].pc = "threw" /\ response[e1] = 200
        /\ e2 \in deferred /\ run[e2].pc = "queued" /\ response[e2] = 200

\* C26 (state part): a rejected event never has a run of
\* processMessageDirectly (so no entitlement check and no call of the
\* model), is never buffered, and the controller has sent exactly its one
\* notice (none for a payload without a message).
C26_NeverQueued ==
    \A e \in Events :
        Rejected(e) =>
            /\ run[e] = NewRun
            /\ e \notin deferred
            /\ e \notin Buffered
            /\ controller[e].sendText = Notice(e)
            /\ controller[e].pc \in {"notify", "returned", "threw"}

\* C26 (step part): the arrival of a rejected event, and the settling of its
\* notice, leave the window counter, the users rows, the buffer and every
\* run as they are.
C26_RejectedStep ==
    \A e \in Events :
        (Rejected(e)' /\ controller'[e] # controller[e]) =>
            /\ requestCount' = requestCount
            /\ window' = window
            /\ users' = users
            /\ messages' = messages
            /\ delayedMessages' = delayedMessages
            /\ run' = run

\* C26: a payload without a message, a message of a blocked country and a
\* message of an unsupported type never reach the queue: the window counter
\* and the messageCount of the sender stay as they are, there is no
\* entitlement check and no call of the model, and for the blocked and the
\* unsupported message exactly one fixed notice is sent.
C26_RejectedNeverReachQueue ==
    /\ []C26_NeverQueued
    /\ [][C26_RejectedStep]_vars

\* C26 witness: a blocked sender's text message and an unsupported message
\* of the known sender have both been answered with their notice while a
\* third message was admitted.
C26_Witness ==
    \E e1, e2, e3 \in Events :
        /\ payload[e1] = "text" /\ IsBlockedCountry(from[e1])
        /\ controller[e1].pc = "returned"
        /\ controller[e1].sendText = {"blockedCountries.message"}
        /\ payload[e2] = "sticker" /\ from[e2] = "a"
        /\ controller[e2].pc = "returned"
        /\ controller[e2].sendText = {"errors.unsupportedType"}
        /\ payload[e3] = "text" /\ from[e3] = "a" /\ run[e3].pc # "idle"
        /\ requestCount = 1


\* C22: checkStripeSubscription never raises: it always returns a boolean.
\* A request that Stripe fails and a customer that is not found count as
\* false: the call returns false when the last answer it looked at is an
\* error or empty, and true only on an answer that shows a subscription, a
\* recent payment, a paid invoice or a matching active subscription.
C22_NeverRaises ==
    /\ oracle.pc \in {"none", "search", "retrieve", "list", "status", "done"}
    /\ oracle.pc = "done" =>
          /\ oracle.result \in BOOLEAN
          /\ oracle.last \in {"error", "empty", "deleted", "none",
                              "unmatched"} => oracle.result = FALSE
          /\ oracle.result = TRUE =>
                oracle.last \in {"active", "succeeded", "paid", "matched"}

\* C22 witness: the call has returned false after Stripe failed inside
\* checkCustomerSubscriptionStatus for the last customer of the fallback
\* list.
C22_Witness ==
    /\ oracle.pc = "done"
    /\ oracle.result = FALSE
    /\ oracle.ret = "list"
    /\ oracle.last = "error"


\* The exchange a row of the context was saved in.
Exchange(row) ==
    CHOOSE k \in 1..MaxExchanges : row.content \in {Question(k), Answer(k)}

\* The text is the transcript of the rows of ctx, one 'role: content' line
\* each, followed by the utterance.
IsTranscript(text, ctx, utterance) ==
    LET k == Len(ctx)
        body == IF k = 0 THEN 0 ELSE 4 * k - 1
    IN  /\ Len(text) = body + 4
        /\ text[1] = "Previous conversation:\n"
        /\ \A i \in 1..k :
              /\ text[4 * i - 2] = ctx[i].role
              /\ text[4 * i - 1] = ": "
              /\ text[4 * i] = ctx[i].content
              /\ i < k => text[4 * i + 1] = "\n"
        /\ text[body + 2] = "\n\nUser: "
        /\ text[body + 3] = utterance
        /\ text[body + 4] = "\nAssistant:"

\* The context holds the most recent rows of the sender, at most
\* contextMessageLimit, the older exchange first.
OldestFirst(ctx, n) ==
    /\ Len(ctx) = (IF 2 * n < contextMessageLimit THEN 2 * n
                   ELSE contextMessageLimit)
    /\ \A i, j \in 1..Len(ctx) :
          i < j => /\ Exchange(ctx[i]) <= Exchange(ctx[j])
                   /\ ctx[i] # ctx[j]
    /\ \A i \in 1..Len(ctx) :
          2 * (n - Exchange(ctx[i])) < contextMessageLimit

\* C21 as stated: for an image and for an audio message the prompt is
\* messageForAI, for a text message the transcript of the prior turns,
\* oldest first, followed by the utterance.
C21_PromptAsStated ==
    prompting.pc = "prompted" =>
        IF prompting.messageType \in {"image", "audio"}
        THEN prompting.prompt = prompting.messageForAI
        ELSE /\ Len(prompting.prompt) = 1
             /\ prompting.prompt[1].type = "text"
             /\ IsTranscript(prompting.prompt[1].text, prompting.context,
                             prompting.messageContent[1])
             /\ OldestFirst(prompting.context, prompting.stored)

\* C21 (amended): for an image message the prompt is messageForAI as built
\* by the controller; for a text message and for an audio message it is a
\* single text part holding the prior turns, oldest first, as
\* 'role: content' lines, followed by the utterance, which for an audio
\* message is its transcription.
C21_Prompt ==
    prompting.pc = "prompted" =>
        IF prompting.messageType = "image"
        THEN /\ prompting.prompt = prompting.messageForAI
             /\ Len(prompting.prompt) = 2
             /\ prompting.prompt[2].type = "image_url"
        ELSE /\ Len(prompting.prompt) = 1
             /\ prompting.prompt[1].type = "text"
             /\ IsTranscript(prompting.prompt[1].text, prompting.context,
                             prompting.messageContent[1])
             /\ OldestFirst(prompting.context, prompting.stored)

\* C21 witness: the prompt of an audio message whose sender has more rows
\* than the limit, the assistant row of the oldest exchange of the context
\* listed before its user row.
C21_Witness ==
    /\ prompting.pc = "prompted"
    /\ prompting.messageType = "audio"
    /\ prompting.stored = MaxExchanges
    /\ Len(prompting.context) = contextMessageLimit
    /\ prompting.context[1].role = "assistant"
    /\ prompting.prompt # prompting.messageForAI

====
